---- MODULE Spec2Model ----
(***************************************************************************)
(* A model of the two core algorithms of the league scraper:               *)
(*   - identity resolution and statistic merging                           *)
(*     (combine_player_data.py, class PlayerDataCombiner), and             *)
(*   - weighted composite scoring with percentile ranks                    *)
(*     (viz/profile_finder.py, class ProfileScorer).                       *)
(*                                                                         *)
(* Strings that the code compares or normalises (player names, team       *)
(* names) are sequences of one-character strings, so that clean_name is    *)
(* computed character by character.  Python values that may be of several  *)
(* types (a CSV cell, a merged statistic) are records [type, repr].        *)
(* Floating-point quantities are exact rationals <<num, den>>.             *)
(***************************************************************************)
EXTENDS Integers, Sequences, FiniteSets, TLC

VARIABLES
    pc,                     \* position of the program being run
    player_stats,           \* PlayerDataCombiner.player_stats: dict, as a sequence of rows in insertion order
    all_players,            \* PlayerDataCombiner.all_players: the roster, in input order
    player,                 \* the argument of the last find_player_stats call
    result,                 \* the value find_player_stats returned
    idx,                    \* combine_data: number of roster players already processed
    combined_data,          \* combine_data: the merged rows so far
    matched_count,          \* combine_data: summary counter
    team_validated_matches, \* combine_data: summary counter
    non_team_matches,       \* combine_data: summary counter
    unmatched_players,      \* combine_data: players without statistics
    ret,                    \* what combine_data returned
    df,                     \* the player table handed to ProfileScorer
    weights,                \* the preset weights handed to calculate_category_score
    additional_metrics,     \* the additional weights handed to calculate_category_score
    scored,                 \* what calculate_category_score returned
    outcome,                \* how the handler of the scoring request ended
    contributions,          \* what get_metric_contributions returned
    teams_info_file,        \* the roster input of a run: its state and its players
    player_stats_file,      \* the statistics input of a run: its state and its rows
    output_file,            \* the CSV export_to_csv wrote, if any
    run_ret,                \* what PlayerDataCombiner.run returned
    clean_arg,              \* the argument of clean_name
    cleaned,                \* what clean_name returned for clean_arg
    recleaned,              \* what clean_name returned for what it had returned
    scraped_name,           \* the argument of the last match_player_by_fullname call
    matched_player,         \* the value match_player_by_fullname returned
    operations,             \* scrape_comprehensive_player_statistics: the (statistic, team) pairs its loops still have to visit
    enhanced_stats,         \* EnhancedPlayerCSVDataManager.player_stats
    match_log,              \* the scraped values and the roster players they were matched to
    exported_rows,          \* the rows export_comprehensive_csv wrote
    player_names,           \* the 'Player Name' column of df
    detail                  \* what the player detail view shows

vars == <<pc, player_stats, all_players, player, result, idx, combined_data,
          matched_count, team_validated_matches, non_team_matches,
          unmatched_players, ret, df, weights, additional_metrics, scored,
          outcome, contributions,
          teams_info_file, player_stats_file, output_file, run_ret,
          clean_arg, cleaned, recleaned, scraped_name, matched_player,
          operations, enhanced_stats, match_log, exported_rows, player_names, detail>>

resolveVars == <<player, result>>
mergeVars == <<idx, combined_data, matched_count, team_validated_matches,
               non_team_matches, unmatched_players, ret>>
scoreVars == <<df, weights, additional_metrics, scored, outcome, contributions>>
runVars == <<teams_info_file, player_stats_file, output_file, run_ret>>
cleanVars == <<clean_arg, cleaned, recleaned>>
scraperVars == <<scraped_name, matched_player, operations, enhanced_stats,
                 match_log, exported_rows>>
viewVars == <<player_names, detail>>
restVars == <<runVars, cleanVars, scraperVars, viewVars>>
combinerVars == <<player_stats, all_players, resolveVars, mergeVars>>

(***************************************************************************)
(* Bounds of the model.                                                    *)
(***************************************************************************)
MaxPool == 2        \* candidates in player_stats (identity resolution)
MaxRoster == 2      \* roster players (merge)
MaxMergePool == 1   \* candidates in player_stats (merge)
MaxPlayers == 3     \* rows of the scored player table
MaxNameLen == 3     \* characters of a name handed to clean_name
MaxStatsRows == 2   \* rows of the statistics CSV of a run
MaxScale == 2       \* largest factor the weights of a request are scaled by
MaxVal == 2         \* largest raw Goal value in the scored table

(***************************************************************************)
(* Optional values: Python's None and a present value.                     *)
(***************************************************************************)
None == <<>>
Some(x) == <<x>>

(***************************************************************************)
(* Characters and names.                                                   *)
(***************************************************************************)
Whitespace == {" ", "\t"}

ToUpper(c) ==
    CASE c = "j" -> "J"
      [] c = "s" -> "S"
      [] c = "o" -> "O"
      [] c = "f" -> "F"
      [] c = "a" -> "A"
      [] c = "b" -> "B"
      [] OTHER -> c

RECURSIVE LStrip(_)
LStrip(s) ==
    IF s = <<>> THEN <<>>
    ELSE IF Head(s) \in Whitespace THEN LStrip(Tail(s))
    ELSE s

RECURSIVE RStrip(_)
RStrip(s) ==
    IF s = <<>> THEN <<>>
    ELSE IF s[Len(s)] \in Whitespace THEN RStrip(SubSeq(s, 1, Len(s) - 1))
    ELSE s

\* str.strip()
Strip(s) == RStrip(LStrip(s))

\* str.upper()
Upper(s) == [i \in 1..Len(s) |-> ToUpper(s[i])]

\* re.sub(r'\s+', ' ', s): every maximal run of whitespace becomes one space
RECURSIVE CollapseWhitespace(_)
CollapseWhitespace(s) ==
    IF s = <<>> THEN <<>>
    ELSE IF Head(s) \in Whitespace
         THEN <<" ">> \o CollapseWhitespace(LStrip(s))
         ELSE <<Head(s)>> \o CollapseWhitespace(Tail(s))

\* PlayerDataCombiner.clean_name
\* clean_name without the collapsing of whitespace runs
clean_name_no_collapse(name) ==
    IF name = <<>> THEN <<>>
    ELSE Upper(Strip(name))

clean_name(name) ==
    IF name = <<>> THEN <<>>
    ELSE CollapseWhitespace(Upper(Strip(name)))

\* The names the model draws from: a full name, a spelling of it that
\* differs by case and whitespace runs, a short display name, a spelling of
\* that with a tab and trailing blank, the empty name and a blank name.
NameJS == <<"J", " ", "S">>
NameJSLoose == <<"j", " ", " ", "s">>
NameJO == <<"J", "O">>
NameJOLoose == <<"\t", "j", "o", " ">>
NameEmpty == <<>>
NameBlank == <<" ">>

Names == {NameJS, NameJSLoose, NameJO, NameJOLoose, NameEmpty, NameBlank}

TeamFA == <<"F", "A">>
TeamFALower == <<"f", "a">>
TeamFB == <<"F", "B">>

Teams == {TeamFA, TeamFALower, TeamFB}

(***************************************************************************)
(* Python values of a CSV cell and of a merged statistic.                  *)
(***************************************************************************)
PyStr(s) == [type |-> "str", repr |-> s]
PyInt(s) == [type |-> "int", repr |-> s]
PyNone == [type |-> "NoneType", repr |-> "None"]

\* self.stat_columns
stat_columns ==
    <<"Assist", "Ball Recovery", "Block", "Block Cross", "Clearance",
      "Create Chance", "Cross", "Dribble Success", "Foul", "Fouled",
      "Free Kick", "Goal", "Header Won", "Intercept", "Own Goal",
      "Passing", "Penalty Goal", "Saves", "Shoot Off Target",
      "Shoot On Target", "Tackle", "Yellow Card">>

StatColumnSet == {stat_columns[i] : i \in 1..Len(stat_columns)}

\* The cells csv.DictReader can hand over for one column: numeric text, the
\* empty string, other text, and None (a row shorter than the header).
CellValues == {PyStr("7"), PyStr(""), PyStr("N/A"), PyNone}

\* A statistics row as csv.DictReader yields it.  present is the set of
\* statistic columns of the CSV header; one cell (Goal) varies, the others
\* hold numeric text.
StatsRow(pname, team, present, goal) ==
    [pname |-> pname,
     Team |-> team,
     cells |-> [c \in present |-> IF c = "Goal" THEN goal ELSE PyStr("3")]]

\* dict.get(col, default) on a statistics row
CellGet(stats, col, default) ==
    IF col \in DOMAIN stats.cells THEN stats.cells[col] ELSE default

(***************************************************************************)
(* player_stats as an insertion-ordered dict keyed by 'Player Name'.       *)
(***************************************************************************)
HasKey(pool, key) == \E i \in 1..Len(pool) : pool[i].pname = key

Lookup(pool, key) == pool[CHOOSE i \in 1..Len(pool) : pool[i].pname = key]

\* self.player_stats[player_name] = row: a new key goes last, an existing
\* key keeps its place and gets the new row
DictSet(pool, row) ==
    IF HasKey(pool, row.pname)
    THEN [i \in 1..Len(pool) |-> IF pool[i].pname = row.pname THEN row ELSE pool[i]]
    ELSE Append(pool, row)

(***************************************************************************)
(* Identity resolution: PlayerDataCombiner.find_player_stats.              *)
(***************************************************************************)
\* a team comparison that normalises both sides first
TeamMatchesClean(stats, team_name) == clean_name(stats.Team) = clean_name(team_name)

\* stats.get('Team', '') == team_name
TeamMatches(stats, team_name) == stats.Team = team_name

Found(stats, match_type) == [stats |-> Some(stats), match_type |-> match_type]

NoMatch == [stats |-> None, match_type |-> "no_match"]

\* Strategy 3: the loop over self.player_stats.items(), from position i on
RECURSIVE CleanScan(_, _, _, _, _)
CleanScan(pool, i, team_name, clean_full_name, clean_short_name) ==
    IF i > Len(pool) THEN NoMatch
    ELSE IF TeamMatches(pool[i], team_name)
         THEN LET clean_stats_name == clean_name(pool[i].pname)
              IN  IF clean_stats_name = clean_full_name
                  THEN Found(pool[i], "clean_fullname_team")
                  ELSE IF clean_stats_name = clean_short_name
                  THEN Found(pool[i], "clean_name_team")
                  ELSE CleanScan(pool, i + 1, team_name, clean_full_name, clean_short_name)
         ELSE CleanScan(pool, i + 1, team_name, clean_full_name, clean_short_name)

\* find_player_stats with a cascade that gives up at an exact hit under another team
find_player_stats_stops(pool, p) ==
    IF HasKey(pool, p.fullName)
    THEN IF TeamMatches(Lookup(pool, p.fullName), p.team_name)
         THEN Found(Lookup(pool, p.fullName), "exact_fullname_team")
         ELSE NoMatch
    ELSE IF HasKey(pool, p.name)
    THEN IF TeamMatches(Lookup(pool, p.name), p.team_name)
         THEN Found(Lookup(pool, p.name), "exact_name_team")
         ELSE NoMatch
    ELSE CleanScan(pool, 1, p.team_name, clean_name(p.fullName), clean_name(p.name))

find_player_stats(pool, p) ==
    IF HasKey(pool, p.fullName) /\ TeamMatches(Lookup(pool, p.fullName), p.team_name)
    THEN Found(Lookup(pool, p.fullName), "exact_fullname_team")
    ELSE IF HasKey(pool, p.name) /\ TeamMatches(Lookup(pool, p.name), p.team_name)
    THEN Found(Lookup(pool, p.name), "exact_name_team")
    ELSE CleanScan(pool, 1, p.team_name, clean_name(p.fullName), clean_name(p.name))

\* A roster player as load_teams_info builds it
Player(name, fullName, team_name) ==
    [name |-> name, fullName |-> fullName, team_name |-> team_name]

NoPlayer == Player(<<>>, <<>>, <<>>)

(***************************************************************************)
(* Actions.                                                                *)
(***************************************************************************)
\* load_player_stats, one row of the reader: rows with an empty name are
\* skipped, the others are stored under their name
LoadStatsRow(row, maxPool) ==
    /\ pc = "load_stats"
    /\ HasKey(player_stats, row.pname) \/ Len(player_stats) < maxPool
    /\ player_stats' = IF row.pname # <<>> THEN DictSet(player_stats, row) ELSE player_stats
    /\ UNCHANGED <<pc, all_players, resolveVars, mergeVars, scoreVars, restVars>>

\* one call of find_player_stats
FindPlayerStats(p) ==
    /\ pc = "load_stats"
    /\ player' = p
    /\ result' = find_player_stats(player_stats, p)
    /\ pc' = "resolved"
    /\ UNCHANGED <<player_stats, all_players, mergeVars, scoreVars, restVars>>

(***************************************************************************)
(* Identity resolution on its own: a pool is loaded row by row, then one   *)
(* target player is resolved against it.                                   *)
(***************************************************************************)
ResolveRows == {StatsRow(n, t, StatColumnSet, PyStr("7")) : n \in Names, t \in Teams}

ResolveTargets == {Player(n, f, t) : n \in Names, f \in Names, t \in Teams}

\* PlayerDataCombiner.__init__: the data containers
InitCombiner ==
    /\ player_stats = <<>>
    /\ all_players = <<>>
    /\ player = NoPlayer
    /\ result = NoMatch
    /\ idx = 0
    /\ combined_data = <<>>
    /\ matched_count = 0
    /\ team_validated_matches = 0
    /\ non_team_matches = 0
    /\ unmatched_players = <<>>
    /\ ret = "none"

\* an input file that was not looked at, no run
NoFile == [status |-> "unused", content |-> <<>>]

RunIdle ==
    /\ teams_info_file = NoFile
    /\ player_stats_file = NoFile
    /\ output_file = None
    /\ run_ret = "none"

CleanIdle ==
    /\ clean_arg = <<>>
    /\ cleaned = None
    /\ recleaned = None

ScraperIdle ==
    /\ scraped_name = <<>>
    /\ matched_player = None
    /\ operations = <<>>
    /\ enhanced_stats = <<>>
    /\ match_log = <<>>
    /\ exported_rows = <<>>

ViewIdle == player_names = <<>> /\ detail = None

\* nothing but the operation under study is going on
InitIdle == RunIdle /\ CleanIdle /\ ScraperIdle /\ ViewIdle

\* no scoring request
InitCommon ==
    /\ InitCombiner
    /\ InitIdle
    /\ df = <<>>
    /\ weights = <<>>
    /\ additional_metrics = <<>>
    /\ scored = <<>>
    /\ outcome = "none"
    /\ contributions = <<>>

InitResolve ==
    /\ pc = "load_stats"
    /\ InitCommon

NextResolve ==
    \/ \E row \in ResolveRows : LoadStatsRow(row, MaxPool)
    \/ \E p \in ResolveTargets : FindPlayerStats(p)

SpecResolve == InitResolve /\ [][NextResolve]_vars

(***************************************************************************)
(* Merging: PlayerDataCombiner.combine_data, one roster player per step.   *)
(***************************************************************************)
\* a test of the tier that takes only the exact tiers for team-validated
TeamValidatedExactOnly(match_type) ==
    match_type \in {"exact_fullname_team", "exact_name_team"}

\* "team" in match_type
TeamValidated(match_type) ==
    match_type \in {"exact_fullname_team", "exact_name_team",
                    "clean_fullname_team", "clean_name_team",
                    "partial_fullname_team", "partial_name_team",
                    "clean_fullname_no_team", "clean_name_no_team"}

\* create_empty_stats
create_empty_stats == [cells |-> [c \in StatColumnSet |-> PyInt("0")]]

\* the statistic written for one column: '' and None become 0, anything
\* else is written as it is
MergedValue(stats, col) ==
    LET value == CellGet(stats, col, PyStr(""))
    IN  IF value = PyStr("") \/ value = PyNone THEN PyInt("0") ELSE value

\* the combined row of one player
MergedRow(p, stats) ==
    [Name |-> p.name,
     PlayerName |-> p.fullName,
     Team |-> p.team_name,
     stats |-> [c \in StatColumnSet |-> MergedValue(stats, c)]]

\* load_teams_info, one player of one team
LoadPlayer(p) ==
    /\ pc = "load_teams"
    /\ Len(all_players) < MaxRoster
    /\ all_players' = Append(all_players, p)
    /\ UNCHANGED <<pc, player_stats, resolveVars, mergeVars, scoreVars, restVars>>

\* load_teams_info returns True and run goes on to load_player_stats
TeamsLoaded ==
    /\ pc = "load_teams"
    /\ pc' = "load_stats"
    /\ UNCHANGED <<player_stats, all_players, resolveVars, mergeVars, scoreVars, restVars>>

\* combine_data up to its loop: without players or without statistics it
\* returns False
CombineStart ==
    /\ pc = "load_stats"
    /\ IF all_players = <<>> \/ player_stats = <<>>
       THEN /\ ret' = "False"
            /\ pc' = "done"
       ELSE /\ ret' = "none"
            /\ pc' = "combine"
    /\ combined_data' = <<>>
    /\ matched_count' = 0
    /\ team_validated_matches' = 0
    /\ non_team_matches' = 0
    /\ unmatched_players' = <<>>
    /\ idx' = 0
    /\ UNCHANGED <<player_stats, all_players, resolveVars, scoreVars, restVars>>

\* one iteration of the loop over self.all_players
CombineStep ==
    /\ pc = "combine"
    /\ idx < Len(all_players)
    /\ LET p == all_players[idx + 1]
           found == find_player_stats(player_stats, p)
           matched == found.stats # None /\ found.match_type # "no_match"
           stats == IF matched THEN found.stats[1] ELSE create_empty_stats
       IN  /\ player' = p
           /\ result' = found
           /\ matched_count' = IF matched THEN matched_count + 1 ELSE matched_count
           /\ team_validated_matches' =
                 IF matched /\ TeamValidated(found.match_type)
                 THEN team_validated_matches + 1 ELSE team_validated_matches
           /\ non_team_matches' =
                 IF matched /\ ~TeamValidated(found.match_type)
                 THEN non_team_matches + 1 ELSE non_team_matches
           /\ unmatched_players' =
                 IF matched THEN unmatched_players ELSE Append(unmatched_players, p)
           /\ combined_data' = Append(combined_data, MergedRow(p, stats))
    /\ idx' = idx + 1
    /\ UNCHANGED <<pc, player_stats, all_players, ret, scoreVars, restVars>>

\* the loop is over: combine_data returns combined_data
CombineReturn ==
    /\ pc = "combine"
    /\ idx = Len(all_players)
    /\ ret' = "combined_data"
    /\ pc' = "done"
    /\ UNCHANGED <<player_stats, all_players, resolveVars, idx, combined_data,
                   matched_count, team_validated_matches, non_team_matches,
                   unmatched_players, scoreVars, restVars>>

MergePlayers ==
    {Player(NameJO, f, t) : f \in {NameJS, NameEmpty}, t \in {TeamFA, TeamFB}}

\* the statistics rows of the merge: the Goal cell takes every cell value,
\* or the CSV has no Goal column at all
MergeRows ==
    {StatsRow(n, t, StatColumnSet, g) :
        n \in {NameJS, NameJSLoose, NameJO}, t \in {TeamFA, TeamFB}, g \in CellValues}
    \cup
    {StatsRow(n, t, StatColumnSet \ {"Goal"}, PyNone) :
        n \in {NameJS, NameJSLoose, NameJO}, t \in {TeamFA, TeamFB}}

InitMerge ==
    /\ pc = "load_teams"
    /\ InitCommon

NextMerge ==
    \/ \E p \in MergePlayers : LoadPlayer(p)
    \/ TeamsLoaded
    \/ \E row \in MergeRows : LoadStatsRow(row, MaxMergePool)
    \/ CombineStart
    \/ CombineStep
    \/ CombineReturn

SpecMerge == InitMerge /\ [][NextMerge]_vars

(***************************************************************************)
(* PlayerDataCombiner.run from the two input files to the exported CSV.    *)
(* An input file is there and readable, missing, or unreadable; of an      *)
(* unreadable file the content is what is written in it.                   *)
(***************************************************************************)
\* open and parse succeed for anything but a missing file
LoadsUnlessMissing(file) == file.status # "missing"

\* open and parse succeed: neither FileNotFoundError nor another exception
Loads(file) == file.status = "ok"

\* load_player_stats: the dict the rows of the reader leave, every row
\* with a non-empty name stored under that name
RECURSIVE StatsDict(_)
StatsDict(rows) ==
    IF rows = <<>> THEN <<>>
    ELSE LET before == StatsDict(SubSeq(rows, 1, Len(rows) - 1))
             row == rows[Len(rows)]
         IN  IF row.pname # <<>> THEN DictSet(before, row) ELSE before

\* run: if not self.load_teams_info(): return False
RunLoadTeamsInfo ==
    /\ pc = "run"
    /\ IF Loads(teams_info_file)
       THEN /\ all_players' = teams_info_file.content
            /\ pc' = "run_load_stats"
            /\ run_ret' = run_ret
       ELSE /\ all_players' = all_players
            /\ pc' = "returned"
            /\ run_ret' = "False"
    /\ UNCHANGED <<player_stats, resolveVars, mergeVars, scoreVars,
                   teams_info_file, player_stats_file, output_file,
                   cleanVars, scraperVars, viewVars>>

\* run: if not self.load_player_stats(): return False
RunLoadPlayerStats ==
    /\ pc = "run_load_stats"
    /\ IF Loads(player_stats_file)
       THEN /\ player_stats' = StatsDict(player_stats_file.content)
            /\ pc' = "load_stats"
            /\ run_ret' = run_ret
       ELSE /\ player_stats' = <<>>
            /\ pc' = "returned"
            /\ run_ret' = "False"
    /\ UNCHANGED <<all_players, resolveVars, mergeVars, scoreVars,
                   teams_info_file, player_stats_file, output_file,
                   cleanVars, scraperVars, viewVars>>

\* run, after combine_data returned: if not combined_data: return False;
\* return self.export_to_csv(combined_data), which writes the file and
\* returns True, or fails to and returns False
RunExport ==
    /\ pc = "done"
    /\ IF ret = "False" \/ combined_data = <<>>
       THEN /\ output_file' = output_file
            /\ run_ret' = "False"
       ELSE \E written \in BOOLEAN :
                /\ output_file' = IF written THEN Some(combined_data) ELSE output_file
                /\ run_ret' = IF written THEN "True" ELSE "False"
    /\ pc' = "returned"
    /\ UNCHANGED <<player_stats, all_players, resolveVars, mergeVars, scoreVars,
                   teams_info_file, player_stats_file,
                   cleanVars, scraperVars, viewVars>>

\* the input files of a run
Files(contents) ==
    {[status |-> "ok", content |-> c] : c \in contents}
    \cup {[status |-> "missing", content |-> <<>>]}
    \cup {[status |-> "unreadable", content |-> c] : c \in {d \in contents : Len(d) = 1}}

RunRosters == UNION {[1..n -> MergePlayers] : n \in 0..MaxRoster}

RunStatsRows ==
    {StatsRow(n, t, StatColumnSet, PyStr("7")) :
        n \in {NameJS, NameJO, NameEmpty}, t \in {TeamFA, TeamFB}}

RunStatsFiles == UNION {[1..n -> RunStatsRows] : n \in 0..MaxStatsRows}

InitRun ==
    /\ pc = "run"
    /\ InitCombiner
    /\ df = <<>>
    /\ weights = <<>>
    /\ additional_metrics = <<>>
    /\ scored = <<>>
    /\ outcome = "none"
    /\ contributions = <<>>
    /\ teams_info_file \in Files(RunRosters)
    /\ player_stats_file \in Files(RunStatsFiles)
    /\ output_file = None
    /\ run_ret = "none"
    /\ CleanIdle /\ ScraperIdle /\ ViewIdle

NextRun ==
    \/ RunLoadTeamsInfo
    \/ RunLoadPlayerStats
    \/ CombineStart
    \/ CombineStep
    \/ CombineReturn
    \/ RunExport

SpecRun == InitRun /\ [][NextRun]_vars

(***************************************************************************)
(* clean_name on its own: a name is cleaned, and the result cleaned again. *)
(* None and the empty string are the same value, the empty sequence.       *)
(***************************************************************************)
CleanName ==
    /\ pc = "clean"
    /\ cleaned = None
    /\ cleaned' = Some(clean_name(clean_arg))
    /\ UNCHANGED <<pc, combinerVars, scoreVars, runVars, clean_arg, recleaned,
                   scraperVars, viewVars>>

CleanNameAgain ==
    /\ pc = "clean"
    /\ cleaned # None
    /\ recleaned = None
    /\ recleaned' = Some(clean_name(cleaned[1]))
    /\ UNCHANGED <<pc, combinerVars, scoreVars, runVars, clean_arg, cleaned,
                   scraperVars, viewVars>>

\* the characters of the names: a blank, a tab, a lower-case and an
\* upper-case letter
CleanChars == {" ", "\t", "j", "S"}

CleanArgs == UNION {[1..n -> CleanChars] : n \in 0..MaxNameLen}

InitClean ==
    /\ pc = "clean"
    /\ InitCombiner
    /\ df = <<>>
    /\ weights = <<>>
    /\ additional_metrics = <<>>
    /\ scored = <<>>
    /\ outcome = "none"
    /\ contributions = <<>>
    /\ RunIdle /\ ScraperIdle /\ ViewIdle
    /\ clean_arg \in CleanArgs
    /\ cleaned = None
    /\ recleaned = None

NextClean == CleanName \/ CleanNameAgain

SpecClean == InitClean /\ [][NextClean]_vars

(***************************************************************************)
(* The team-less resolver of the scraper:                                  *)
(* ILeaguePlayerScraper.match_player_by_fullname.                          *)
(***************************************************************************)
\* clean_text: strip and collapse whitespace (the names of the model hold
\* no HTML entities)
clean_text(text) ==
    IF text = <<>> THEN <<>>
    ELSE CollapseWhitespace(Strip(text))

\* a in b, for strings: the empty string is in every string
In(a, b) ==
    \E i \in 0..(Len(b) - Len(a)) : SubSeq(b, i + 1, i + Len(a)) = a

\* the first position of the list that is in the set, 0 if there is none
FirstOf(positions) ==
    IF positions = {} THEN 0
    ELSE CHOOSE i \in positions : \A j \in positions : i <= j

\* the resolver with one containment loop over fullName and name
MatchPositionOnePass(scraped_name_clean, players) ==
    LET exact_full == {i \in 1..Len(players) :
                          Upper(players[i].fullName) = scraped_name_clean}
        exact_name == {i \in 1..Len(players) :
                          Upper(players[i].name) = scraped_name_clean}
        partial == {i \in 1..Len(players) :
                       \/ In(scraped_name_clean, Upper(players[i].fullName))
                       \/ In(Upper(players[i].fullName), scraped_name_clean)
                       \/ In(scraped_name_clean, Upper(players[i].name))
                       \/ In(Upper(players[i].name), scraped_name_clean)}
    IN  IF exact_full # {} THEN FirstOf(exact_full)
        ELSE IF exact_name # {} THEN FirstOf(exact_name)
        ELSE FirstOf(partial)

\* the four loops of match_player_by_fullname, one after the other; the
\* position of the player returned, 0 for None
MatchPosition(scraped_name_clean, players) ==
    LET exact_full == {i \in 1..Len(players) :
                          Upper(players[i].fullName) = scraped_name_clean}
        exact_name == {i \in 1..Len(players) :
                          Upper(players[i].name) = scraped_name_clean}
        partial_full == {i \in 1..Len(players) :
                            \/ In(scraped_name_clean, Upper(players[i].fullName))
                            \/ In(Upper(players[i].fullName), scraped_name_clean)}
        partial_name == {i \in 1..Len(players) :
                            \/ In(scraped_name_clean, Upper(players[i].name))
                            \/ In(Upper(players[i].name), scraped_name_clean)}
    IN  IF exact_full # {} THEN FirstOf(exact_full)
        ELSE IF exact_name # {} THEN FirstOf(exact_name)
        ELSE IF partial_full # {} THEN FirstOf(partial_full)
        ELSE FirstOf(partial_name)

match_player_by_fullname(name, players) ==
    LET found == MatchPosition(Upper(clean_text(name)), players)
    IN  IF found = 0 THEN None ELSE Some(players[found])

\* one call of match_player_by_fullname
MatchPlayerByFullname(name) ==
    /\ pc = "match"
    /\ scraped_name' = name
    /\ matched_player' = match_player_by_fullname(name, all_players)
    /\ pc' = "matched"
    /\ UNCHANGED <<combinerVars, scoreVars, runVars, cleanVars, operations,
                   enhanced_stats, match_log, exported_rows, viewVars>>

\* the players and the scraped names of the resolver
ScraperPlayers ==
    {Player(n, f, TeamFA) :
        n \in {<<"J", "S">>, <<"S">>, <<>>},
        f \in {<<"J", "O">>, <<"S", "O">>, <<>>}}

ScrapedNames ==
    {<<"J">>, <<"S">>, <<"F">>, <<"j", "o">>, <<" ", "J", "S">>, <<"J", "S", "O">>}

InitMatch ==
    /\ pc = "match"
    /\ player_stats = <<>>
    /\ all_players \in UNION {[1..n -> ScraperPlayers] : n \in 0..MaxRoster}
    /\ player = NoPlayer
    /\ result = NoMatch
    /\ idx = 0
    /\ combined_data = <<>>
    /\ matched_count = 0
    /\ team_validated_matches = 0
    /\ non_team_matches = 0
    /\ unmatched_players = <<>>
    /\ ret = "none"
    /\ df = <<>>
    /\ weights = <<>>
    /\ additional_metrics = <<>>
    /\ scored = <<>>
    /\ outcome = "none"
    /\ contributions = <<>>
    /\ InitIdle

NextMatch == \E name \in ScrapedNames : MatchPlayerByFullname(name)

SpecMatch == InitMatch /\ [][NextMatch]_vars

(***************************************************************************)
(* The comprehensive export of the scraper:                                *)
(* ILeaguePlayerScraper.scrape_comprehensive_player_statistics with        *)
(* EnhancedPlayerCSVDataManager.  A team's team_id is its team_name.       *)
(***************************************************************************)
\* self.statistics_types.values(), two of them
StatisticsTypes == <<"Assist", "Goal">>

\* set(player['team_id'] for player in self.all_players)
TeamIds(players) == {players[i].team_name : i \in 1..Len(players)}

\* list(set): the members in some order
ListOfSet(S) ==
    {order \in [1..Cardinality(S) -> S] : \A x \in S : \E i \in DOMAIN order : order[i] = x}

\* the iterations of the loops over statistics_types and team_ids, in order
Operations(team_ids) ==
    [k \in 1..(Len(StatisticsTypes) * Len(team_ids)) |->
        [stat_name |-> StatisticsTypes[((k - 1) \div Len(team_ids)) + 1],
         team_id |-> team_ids[((k - 1) % Len(team_ids)) + 1]]]

\* players_by_team[team_id], as the positions of its players in all_players
PlayersByTeam(players, team_id) ==
    SelectSeq([i \in 1..Len(players) |-> i], LAMBDA i : players[i].team_name = team_id)

\* dict.get(key, default) on a dict of statistic names
DictGet(dict, key, default) == IF key \in DOMAIN dict THEN dict[key] ELSE default

\* self.player_stats.get(full_name, {}): the dict is a sequence of entries
\* in insertion order
StatsOf(stats, full_name) ==
    IF \E i \in 1..Len(stats) : stats[i].full_name = full_name
    THEN stats[CHOOSE i \in 1..Len(stats) : stats[i].full_name = full_name].values
    ELSE <<>>

\* EnhancedPlayerCSVDataManager.add_player_statistic
add_player_statistic(stats, full_name, stat_name, value) ==
    LET old == StatsOf(stats, full_name)
        new == [s \in DOMAIN old \cup {stat_name} |-> IF s = stat_name THEN value ELSE old[s]]
    IN  IF \E i \in 1..Len(stats) : stats[i].full_name = full_name
        THEN [i \in 1..Len(stats) |->
                 IF stats[i].full_name = full_name
                 THEN [full_name |-> full_name, values |-> new]
                 ELSE stats[i]]
        ELSE Append(stats, [full_name |-> full_name, values |-> new])

\* the loop over results['player_statistics'] from row i on: every scraped
\* row that match_player_by_fullname matches to a player of the team is
\* stored under that player's fullName; log keeps the player it was
\* matched to
RECURSIVE MatchScraped(_, _, _, _, _, _)
MatchScraped(acc, results, i, stat_name, team_players, positions) ==
    IF i > Len(results) THEN acc
    ELSE LET found == MatchPosition(Upper(clean_text(results[i].player_name)), team_players)
             next == IF found = 0 THEN acc
                     ELSE [stats |-> add_player_statistic(acc.stats, team_players[found].fullName,
                                                         stat_name, results[i].value),
                           log |-> Append(acc.log, [position |-> positions[found],
                                                   stat_name |-> stat_name,
                                                   value |-> results[i].value])]
         IN  MatchScraped(next, results, i + 1, stat_name, team_players, positions)

\* export_comprehensive_csv: one row per roster player, the statistics
\* looked up under the player's fullName
export_comprehensive_csv(players, stats) ==
    [i \in 1..Len(players) |->
        [name |-> players[i].name,
         fullName |-> players[i].fullName,
         team_name |-> players[i].team_name,
         values |-> [k \in 1..Len(StatisticsTypes) |->
                        DictGet(StatsOf(stats, players[i].fullName),
                                StatisticsTypes[k], <<>>)]]]

\* scrape_comprehensive_player_statistics up to its loops: nothing to do
\* without players
ScrapeStart ==
    /\ pc = "scrape_start"
    /\ IF all_players = <<>>
       THEN pc' = "returned" /\ operations' = operations
       ELSE /\ pc' = "scrape"
            /\ \E team_ids \in ListOfSet(TeamIds(all_players)) :
                   operations' = Operations(team_ids)
    /\ UNCHANGED <<combinerVars, scoreVars, runVars, cleanVars, scraped_name,
                   matched_player, enhanced_stats, match_log, exported_rows, viewVars>>

\* one statistic of one team: what scrape_statistic returned for it (no
\* rows when the fetch failed) is matched against the players of the team
ScrapeStatistic(results) ==
    /\ pc = "scrape"
    /\ operations # <<>>
    /\ LET op == Head(operations)
           positions == PlayersByTeam(all_players, op.team_id)
           team_players == [i \in 1..Len(positions) |-> all_players[positions[i]]]
           after == MatchScraped([stats |-> enhanced_stats, log |-> match_log],
                                 results, 1, op.stat_name, team_players, positions)
       IN  /\ enhanced_stats' = after.stats
           /\ match_log' = after.log
           /\ IF results = <<>>
              THEN UNCHANGED <<scraped_name, matched_player>>
              ELSE /\ scraped_name' = results[Len(results)].player_name
                   /\ matched_player' =
                          match_player_by_fullname(results[Len(results)].player_name, team_players)
    /\ operations' = Tail(operations)
    /\ UNCHANGED <<pc, combinerVars, scoreVars, runVars, cleanVars, exported_rows, viewVars>>

\* after the loops: enhanced_csv_manager.export_comprehensive_csv
ExportComprehensiveCsv ==
    /\ pc = "scrape"
    /\ operations = <<>>
    /\ exported_rows' = export_comprehensive_csv(all_players, enhanced_stats)
    /\ pc' = "exported"
    /\ UNCHANGED <<combinerVars, scoreVars, runVars, cleanVars, scraped_name,
                   matched_player, operations, enhanced_stats, match_log, viewVars>>

\* the rosters and the scraped rows of the export
MaxScraped == 1

ExportPlayers ==
    {Player(n, f, t) : n \in {<<"J", "S">>, <<"S">>},
                       f \in {<<"J", "O">>, <<>>},
                       t \in {TeamFA, TeamFB}}

ScrapedRows ==
    {[player_name |-> n, value |-> v] :
        n \in {<<"J", "S">>, <<"J", "O">>, <<"F">>}, v \in {<<"1">>, <<"2">>}}

ScrapedResults == UNION {[1..n -> ScrapedRows] : n \in 0..MaxScraped}

InitScrape ==
    /\ pc = "scrape_start"
    /\ player_stats = <<>>
    /\ all_players \in UNION {[1..n -> ExportPlayers] : n \in 0..MaxRoster}
    /\ player = NoPlayer
    /\ result = NoMatch
    /\ idx = 0
    /\ combined_data = <<>>
    /\ matched_count = 0
    /\ team_validated_matches = 0
    /\ non_team_matches = 0
    /\ unmatched_players = <<>>
    /\ ret = "none"
    /\ df = <<>>
    /\ weights = <<>>
    /\ additional_metrics = <<>>
    /\ scored = <<>>
    /\ outcome = "none"
    /\ contributions = <<>>
    /\ InitIdle

NextScrape ==
    \/ ScrapeStart
    \/ \E results \in ScrapedResults : ScrapeStatistic(results)
    \/ ExportComprehensiveCsv

SpecScrape == InitScrape /\ [][NextScrape]_vars

(***************************************************************************)
(* Properties of identity resolution.                                      *)
(***************************************************************************)
Candidates == {player_stats[i] : i \in 1..Len(player_stats)}

SameTeam(c, p) == c.Team = p.team_name

\* The four strategies of the cascade, as conditions on one candidate
Satisfies(tier, c, p) ==
    CASE tier = "exact_fullname_team" -> SameTeam(c, p) /\ c.pname = p.fullName
      [] tier = "exact_name_team" -> SameTeam(c, p) /\ c.pname = p.name
      [] tier = "clean_fullname_team" ->
            SameTeam(c, p) /\ clean_name(c.pname) = clean_name(p.fullName)
      [] tier = "clean_name_team" ->
            SameTeam(c, p) /\ clean_name(c.pname) = clean_name(p.name)
      [] OTHER -> FALSE

TierOrder == <<"exact_fullname_team", "exact_name_team",
               "clean_fullname_team", "clean_name_team">>

Satisfiable(k, p) == \E c \in Candidates : Satisfies(TierOrder[k], c, p)

\* C1: find_player_stats returns the tier of the earliest strategy, in the
\* order exact-fullname, exact-name, clean-fullname, clean-name, that some
\* candidate satisfies, with a record satisfying that strategy, and no-match
\* only when no candidate satisfies any of the four.
C1_EarliestStrategy ==
    pc = "resolved" =>
        IF \E k \in 1..Len(TierOrder) : Satisfiable(k, player)
        THEN LET k == CHOOSE j \in 1..Len(TierOrder) :
                        /\ Satisfiable(j, player)
                        /\ \A h \in 1..(j - 1) : ~Satisfiable(h, player)
             IN  /\ result.match_type = TierOrder[k]
                 /\ \E c \in Candidates :
                        /\ result.stats = Some(c)
                        /\ Satisfies(TierOrder[k], c, player)
        ELSE result = NoMatch

\* The orders in which the entries of a pool can be enumerated
Orders(pool) ==
    {[i \in 1..Len(pool) |-> pool[f[i]]] :
        f \in {g \in [1..Len(pool) -> 1..Len(pool)] :
                 \A i, j \in 1..Len(pool) : g[i] = g[j] => i = j}}

\* C2: permuting the enumeration order of player_stats changes neither the
\* record nor the tier find_player_stats returns.
C2_OrderIndependent ==
    pc = "resolved" =>
        \A q \in Orders(player_stats) : find_player_stats(q, player) = result

NameMatches(c, p) ==
    \/ c.pname \in {p.name, p.fullName}
    \/ clean_name(c.pname) \in {clean_name(p.name), clean_name(p.fullName)}

\* C3: a returned record carries exactly the target's team string, and a
\* target whose name or fullName matches candidates only under other teams
\* gets (None, no_match).
C3_TeamVerbatim ==
    pc = "resolved" =>
        /\ result.stats # None => /\ result.match_type # "no_match"
                                  /\ result.stats[1].Team = player.team_name
        /\ result.stats = None => result.match_type = "no_match"
        /\ (\A c \in Candidates : NameMatches(c, player) => ~SameTeam(c, player))
              => result = NoMatch

\* C3's case: a record is returned although a candidate whose team differs
\* from the target's only by letter case carries the target's fullName.
C3_Witness ==
    /\ pc = "resolved"
    /\ result.stats # None
    /\ \E c \in Candidates :
          /\ c.pname = player.fullName
          /\ c.Team # player.team_name
          /\ clean_name(c.Team) = clean_name(player.team_name)

\* C3's other case: the only name matches are under another team
C3_WitnessRejected ==
    /\ pc = "resolved"
    /\ result = NoMatch
    /\ \E c \in Candidates : c.pname = player.fullName /\ ~SameTeam(c, player)

\* The scenario of C4: candidate a spells the target's fullName with other
\* case or whitespace under the target's team, candidate b carries the
\* fullName verbatim under another team.
C4_Scenario(a, b) ==
    /\ pc = "resolved"
    /\ a \in Candidates /\ b \in Candidates
    /\ a.pname # player.fullName
    /\ clean_name(a.pname) = clean_name(player.fullName)
    /\ SameTeam(a, player)
    /\ b.pname = player.fullName
    /\ ~SameTeam(b, player)

\* C4 as stated: in that scenario the result is a with tier clean-fullname-team.
C4_AsStated ==
    \A a, b \in Candidates :
        C4_Scenario(a, b) => result = Found(a, "clean_fullname_team")

\* C4 amended: when a is the only candidate of the target's team, the result
\* is a; the tier is clean-fullname-team unless the target's name is a's
\* scraped name verbatim, and then it is exact-name-team.
C4_WrongTeamHitSkipped ==
    \A a, b \in Candidates :
        (C4_Scenario(a, b) /\ \A c \in Candidates : SameTeam(c, player) => c = a)
            => result = Found(a, IF player.name = a.pname
                                 THEN "exact_name_team"
                                 ELSE "clean_fullname_team")

C4_Witness ==
    \E a, b \in Candidates :
        /\ C4_Scenario(a, b)
        /\ player.name # a.pname
        /\ result = Found(a, "clean_fullname_team")

(***************************************************************************)
(* Properties of the merge.                                                *)
(***************************************************************************)
Returned == pc = "done" /\ ret = "combined_data"

RowOf(i) == combined_data[i]

\* no candidate satisfies any strategy for roster player p
Unresolvable(p) ==
    \A c \in Candidates : \A k \in 1..Len(TierOrder) : ~Satisfies(TierOrder[k], c, p)

\* C5: combine_data produces one merged row per roster player, in roster
\* order, each with all 22 statistic columns, for every roster and every pool.
C5_OneRowPerPlayer ==
    pc = "done" =>
        /\ all_players # <<>> => ret = "combined_data"
        /\ Len(combined_data) = Len(all_players)
        /\ \A i \in 1..Len(all_players) :
              /\ RowOf(i).Name = all_players[i].name
              /\ RowOf(i).PlayerName = all_players[i].fullName
              /\ RowOf(i).Team = all_players[i].team_name
              /\ DOMAIN RowOf(i).stats = StatColumnSet
              /\ Cardinality(DOMAIN RowOf(i).stats) = 22

IsNumericText(s) == s \in {"0", "3", "7"}

\* the number a cell should be written as: its value when it is numeric
\* text, 0 when it is empty, None, absent or other text
Coerced(stats, col) ==
    LET value == CellGet(stats, col, PyStr(""))
    IN  IF value.type = "str" /\ IsNumericText(value.repr)
        THEN PyInt(value.repr)
        ELSE PyInt("0")

\* C6: every statistic of every merged row is a number: an empty or
\* non-numeric cell of the matched record is written as 0, a numeric cell as
\* its numeric value.
C6_StatisticsNumeric ==
    Returned =>
        \A i \in 1..Len(combined_data) : \A c \in StatColumnSet :
            /\ RowOf(i).stats[c].type = "int"
            /\ LET found == find_player_stats(player_stats, all_players[i])
               IN  found.stats # None =>
                      RowOf(i).stats[c] = Coerced(found.stats[1], c)

\* C7: a non-empty roster merged against a pool in which no player has a
\* matching record, the empty pool included, yields one row per player with
\* all 22 metrics 0 and zero team-validated and non-team matches.
C7_NoMatchesAllZero ==
    (/\ pc = "done"
     /\ all_players # <<>>
     /\ \A i \in 1..Len(all_players) : Unresolvable(all_players[i]))
    => /\ ret = "combined_data"
       /\ Len(combined_data) = Len(all_players)
       /\ \A i \in 1..Len(combined_data) : \A c \in StatColumnSet :
             RowOf(i).stats[c] = PyInt("0")
       /\ team_validated_matches = 0
       /\ non_team_matches = 0

\* the roster players, among the first k, for which some candidate of the
\* player's own team satisfies a strategy
Resolvable(k) == {i \in 1..k : ~Unresolvable(all_players[i])}

\* C8: the summary counters partition the roster: matched = team-validated +
\* non-team, matched + unmatched = players processed (all of them at the
\* end), and the team-validated players are exactly those with a matching
\* record of their own team.
C8_CountersPartition ==
    pc \in {"combine", "done"} /\ ret # "False" =>
        /\ matched_count = team_validated_matches + non_team_matches
        /\ matched_count + Len(unmatched_players) = idx
        /\ Len(combined_data) = idx
        /\ Returned => idx = Len(all_players)
        /\ team_validated_matches = Cardinality(Resolvable(idx))
        /\ \A i \in 1..Len(unmatched_players) :
              Unresolvable(unmatched_players[i])

\* C8's case: a finished run with a matched and an unmatched player
C8_Witness ==
    /\ Returned
    /\ team_validated_matches >= 1
    /\ Len(unmatched_players) >= 1
    /\ result.match_type = "clean_fullname_team"

(***************************************************************************)
(* Exact arithmetic for the scores: a rational is <<num, den>> with        *)
(* den > 0, in lowest terms.                                               *)
(***************************************************************************)
Abs(x) == IF x < 0 THEN -x ELSE x

RECURSIVE GCD(_, _)
GCD(a, b) == IF b = 0 THEN a ELSE GCD(b, a % b)

Rat(n, d) ==
    LET g == GCD(Abs(n), Abs(d))
        sgn == IF d < 0 THEN -1 ELSE 1
    IN  <<(sgn * n) \div g, (sgn * d) \div g>>

RInt(n) == <<n, 1>>
RAdd(a, b) == Rat(a[1] * b[2] + b[1] * a[2], a[2] * b[2])
RSub(a, b) == Rat(a[1] * b[2] - b[1] * a[2], a[2] * b[2])
RMul(a, b) == Rat(a[1] * b[1], a[2] * b[2])
RDiv(a, b) == Rat(a[1] * b[2], a[2] * b[1])
RLess(a, b) == a[1] * b[2] < b[1] * a[2]

RECURSIVE SumOver(_, _)
\* the sum of f[x] for x in S, f[x] integers
SumOver(S, f) ==
    IF S = {} THEN 0
    ELSE LET x == CHOOSE y \in S : TRUE IN f[x] + SumOver(S \ {x}, f)

RECURSIVE RSumOver(_, _)
\* the sum of f[x] for x in S, f[x] rationals
RSumOver(S, f) ==
    IF S = {} THEN RInt(0)
    ELSE LET x == CHOOSE y \in S : TRUE IN RAdd(f[x], RSumOver(S \ {x}, f))

(***************************************************************************)
(* Scoring: ProfileScorer.calculate_category_score.                        *)
(***************************************************************************)
\* self.negative_metrics
negative_metrics == {"Own Goal", "Yellow Card", "Foul", "Shoot Off Target"}

\* df.columns, the metric columns of the player table of the model
DfColumns == {"Goal", "Foul"}

\* the preset weight kept for a metric that is also an additional one
AllWeightsPresetWins(w, additional) ==
    [m \in DOMAIN w \cup DOMAIN additional |->
        IF m \in DOMAIN w THEN w[m] ELSE additional[m]]

\* all_weights = weights.copy(); all_weights.update(additional_metrics)
AllWeights(w, additional) ==
    [m \in DOMAIN w \cup DOMAIN additional |->
        IF m \in DOMAIN additional THEN additional[m] ELSE w[m]]

\* the weights of the metrics that are columns of the table
AvailableWeights(w, additional) ==
    LET all_weights == AllWeights(w, additional)
    IN  [m \in DOMAIN all_weights \cap DfColumns |-> all_weights[m]]

\* the weights as they are, whatever their total
NormalizedWeightsAsGiven(available_weights) ==
    [m \in DOMAIN available_weights |-> RInt(available_weights[m])]

\* the weights divided by their total, and equal weights when the total is 0
NormalizedWeightsEqualOnZero(available_weights) ==
    LET total_weight == SumOver(DOMAIN available_weights, available_weights)
    IN  IF total_weight > 0
        THEN [m \in DOMAIN available_weights |->
                 RDiv(RInt(available_weights[m]), RInt(total_weight))]
        ELSE IF total_weight = 0
        THEN [m \in DOMAIN available_weights |->
                 Rat(1, Cardinality(DOMAIN available_weights))]
        ELSE [m \in DOMAIN available_weights |-> RInt(available_weights[m])]

\* the weights divided by their total, or as they are when the total is not
\* positive
NormalizedWeights(available_weights) ==
    LET total_weight == SumOver(DOMAIN available_weights, available_weights)
    IN  IF total_weight > 0
        THEN [m \in DOMAIN available_weights |->
                 RDiv(RInt(available_weights[m]), RInt(total_weight))]
        ELSE [m \in DOMAIN available_weights |-> RInt(available_weights[m])]

ColMin(table, metric) ==
    CHOOSE v \in {table[i][metric] : i \in 1..Len(table)} :
        \A i \in 1..Len(table) : v <= table[i][metric]

ColMax(table, metric) ==
    CHOOSE v \in {table[i][metric] : i \in 1..Len(table)} :
        \A i \in 1..Len(table) : v >= table[i][metric]

\* the 0-100 value as the share of the column's maximum
NormalizedValueByMax(table, metric, i) ==
    LET col_min == ColMin(table, metric)
        col_max == ColMax(table, metric)
        scaled == RMul(Rat(table[i][metric], col_max), RInt(100))
    IN  IF col_max = col_min THEN RInt(50)
        ELSE IF metric \in negative_metrics THEN RSub(RInt(100), scaled)
        ELSE scaled

\* the 0-100 value without the inversion of the negative metrics
NormalizedValueNoInvert(table, metric, i) ==
    LET col_min == ColMin(table, metric)
        col_max == ColMax(table, metric)
        scaled == RMul(Rat(table[i][metric] - col_min, col_max - col_min), RInt(100))
    IN  IF col_max = col_min THEN RInt(50) ELSE scaled

\* the 0-100 value with 0 for a column without variance
NormalizedValueFlatZero(table, metric, i) ==
    LET col_min == ColMin(table, metric)
        col_max == ColMax(table, metric)
        scaled == RMul(Rat(table[i][metric] - col_min, col_max - col_min), RInt(100))
    IN  IF col_max = col_min THEN RInt(0)
        ELSE IF metric \in negative_metrics THEN RSub(RInt(100), scaled)
        ELSE scaled

\* the 0-100 value of one player for one metric
NormalizedValue(table, metric, i) ==
    LET col_min == ColMin(table, metric)
        col_max == ColMax(table, metric)
        scaled == RMul(Rat(table[i][metric] - col_min, col_max - col_min), RInt(100))
    IN  IF col_max = col_min THEN RInt(50)
        ELSE IF metric \in negative_metrics THEN RSub(RInt(100), scaled)
        ELSE scaled

\* weighted_scores: the composite score of player i
WeightedScore(table, normalized_weights, i) ==
    RSumOver(DOMAIN normalized_weights,
             [m \in DOMAIN normalized_weights |->
                 RMul(NormalizedValue(table, m, i), normalized_weights[m])])

\* Series.rank(pct=True) with method 'min': a tied group gets its lowest rank
PctRankMin(scores, i) ==
    LET n == Len(scores)
        lower == Cardinality({j \in 1..n : RLess(scores[j], scores[i])})
    IN  Rat(lower + 1, n)

\* Series.rank(pct=True): the rank of a value is the mean of the positions
\* its tied group takes in ascending order, divided by the number of values
PctRank(scores, i) ==
    LET n == Len(scores)
        first == 1 + Cardinality({j \in 1..n : RLess(scores[j], scores[i])})
        last == Cardinality({j \in 1..n : ~RLess(scores[i], scores[j])})
        positions == first..last
    IN  RDiv(Rat(SumOver(positions, [k \in positions |-> k]), Cardinality(positions)),
             RInt(n))

\* the orders sort_values(ascending=False) can leave the rows in: the sort
\* is the default quicksort, which is not stable, so rows with equal scores
\* may come out in any order
SortedOrders(scores) ==
    {o \in [1..Len(scores) -> 1..Len(scores)] :
        /\ \A i, j \in 1..Len(scores) : o[i] = o[j] => i = j
        /\ \A i, j \in 1..Len(scores) : i < j => ~RLess(scores[o[i]], scores[o[j]])}

NotScored ==
    [kind |-> "none", returns |-> "nothing", rows |-> <<>>, normalized_weights |-> <<>>]

\* return pd.DataFrame(): the empty result of an empty table or of no valid
\* metric; the value returned is the table alone, not a pair
EmptyFrame(why) ==
    [kind |-> why, returns |-> "frame", rows |-> <<>>, normalized_weights |-> <<>>]

\* the result table in the order o; row is the position the player had in df
ScoredFrame(table, normalized_weights, scores, o) ==
    [kind |-> "scored",
     returns |-> "pair",
     rows |-> [r \in 1..Len(table) |->
                  [Rank |-> r,
                   row |-> o[r],
                   score |-> scores[o[r]],
                   percentile |-> RMul(PctRank(scores, o[r]), RInt(100)),
                   metrics |-> [m \in DOMAIN normalized_weights |-> table[o[r]][m]]]],
     normalized_weights |-> normalized_weights]

\* the composite score of every player of the table
WeightedScores(table, normalized_weights) ==
    [i \in 1..Len(table) |-> WeightedScore(table, normalized_weights, i)]

\* calculate_category_score from the normalized weights on
ScoreWith(table, normalized_weights, scores) ==
    \E o \in SortedOrders(scores) :
        scored' = ScoredFrame(table, normalized_weights, scores, o)

\* calculate_category_score from the available weights on
ScoreAvailable(table, available_weights, normalized_weights) ==
    IF Len(table) = 0 THEN scored' = EmptyFrame("empty")
    ELSE IF DOMAIN available_weights = {} THEN scored' = EmptyFrame("no_valid_metrics")
    ELSE ScoreWith(table, normalized_weights, WeightedScores(table, normalized_weights))

\* one call of calculate_category_score that writes the score columns into
\* the table it was given instead of into a copy
CalculateCategoryScoreInPlace ==
    /\ pc = "score"
    /\ ScoreAvailable(df, AvailableWeights(weights, additional_metrics),
                      NormalizedWeights(AvailableWeights(weights, additional_metrics)))
    /\ pc' = "scored"
    /\ df' = [i \in 1..Len(df) |-> [Goal |-> df[i].Goal, Foul |-> df[i].Foul, Rank |-> i]]
    /\ UNCHANGED <<player_stats, all_players, resolveVars, mergeVars,
                   weights, additional_metrics, outcome, contributions, restVars>>

\* one call of calculate_category_score
CalculateCategoryScore ==
    /\ pc = "score"
    /\ ScoreAvailable(df, AvailableWeights(weights, additional_metrics),
                      NormalizedWeights(AvailableWeights(weights, additional_metrics)))
    /\ pc' = "scored"
    /\ UNCHANGED <<player_stats, all_players, resolveVars, mergeVars,
                   df, weights, additional_metrics, outcome, contributions, restVars>>

\* get_metric_contributions was not called
NoContributions == [player_idx |-> 0, metrics |-> <<>>]

\* the raw values of the two metric columns
GoalValues == 0..MaxVal
FoulValues == {0, 1}

TableRows == {[Goal |-> g, Foul |-> f] : g \in GoalValues, f \in FoulValues}

Tables == UNION {[1..n -> TableRows] : n \in 0..MaxPlayers}

PresetChoices ==
    {("Goal" :> 1), ("Goal" :> 1 @@ "Foul" :> 1), ("Goal" :> 2 @@ "Foul" :> 1),
     ("Saves" :> 1), ("Goal" :> 0 @@ "Foul" :> 0)}

AdditionalChoices == {<<>>, ("Foul" :> 2)}

InitScore ==
    /\ pc = "score"
    /\ InitCombiner
    /\ InitIdle
    /\ df \in Tables
    /\ weights \in PresetChoices
    /\ additional_metrics \in AdditionalChoices
    /\ scored = NotScored
    /\ outcome = "none"
    /\ contributions = NoContributions

NextScore == CalculateCategoryScore

SpecScore == InitScore /\ [][NextScore]_vars

(***************************************************************************)
(* A scoring request from end to end: the button handler of                *)
(* show_profile_finder, which calls calculate_category_score and takes its *)
(* result apart, and get_metric_contributions for one player of the table. *)
(* The weights of a request are any mapping a caller can hand over, also   *)
(* negative ones and names that are no column of the table.                *)
(***************************************************************************)
\* if sum(adjusted_weights.values()) == 0: st.error(...); return
RejectZeroWeights ==
    /\ pc = "score"
    /\ SumOver(DOMAIN weights, weights) = 0
    /\ outcome' = "weights_rejected"
    /\ pc' = "done"
    /\ UNCHANGED <<player_stats, all_players, resolveVars, mergeVars,
                   df, weights, additional_metrics, scored, contributions, restVars>>

\* results_df, used_weights = scorer.calculate_category_score(...): a pair
\* is taken apart; an empty table alone has nothing to iterate over, and
\* the assignment raises ValueError.  Then: if results_df.empty: st.error
Unpack(returned) ==
    IF returned.returns = "frame" THEN "ValueError"
    ELSE IF returned.rows = <<>> THEN "error_reported"
    ELSE "displayed"

ReceiveResult ==
    /\ pc = "scored"
    /\ outcome' = Unpack(scored)
    /\ pc' = "received"
    /\ UNCHANGED <<player_stats, all_players, resolveVars, mergeVars,
                   df, weights, additional_metrics, scored, contributions, restVars>>

\* get_metric_contributions: normalized_value of one metric for the player
ContributionValueNoInvert(table, player_idx, metric) ==
    LET col_min == ColMin(table, metric)
        col_max == ColMax(table, metric)
        player_value == table[player_idx][metric]
    IN  IF col_max = col_min THEN RInt(50)
        ELSE RMul(Rat(player_value - col_min, col_max - col_min), RInt(100))

ContributionValue(table, player_idx, metric) ==
    LET col_min == ColMin(table, metric)
        col_max == ColMax(table, metric)
        player_value == table[player_idx][metric]
    IN  IF col_max = col_min THEN RInt(50)
        ELSE IF metric \in negative_metrics
        THEN RSub(RInt(100),
                  RMul(Rat(player_value - col_min, col_max - col_min), RInt(100)))
        ELSE RMul(Rat(player_value - col_min, col_max - col_min), RInt(100))

\* get_metric_contributions: the weights it works out for itself
ContributionWeights(w, additional) ==
    LET all_weights == [m \in DOMAIN w \cup DOMAIN additional |->
                           IF m \in DOMAIN additional THEN additional[m] ELSE w[m]]
        available == DOMAIN all_weights \cap DfColumns
        total_weight == SumOver(available, all_weights)
    IN  [m \in available |->
            IF total_weight > 0 THEN Rat(all_weights[m], total_weight)
            ELSE RInt(all_weights[m])]

\* contributions[metric] = {...}
Contribution(table, player_idx, metric, normalized_value, weight) ==
    [raw_value |-> table[player_idx][metric],
     normalized_score |-> normalized_value,
     weight |-> weight,
     weighted_contribution |-> RMul(normalized_value, weight)]

get_metric_contributions(table, player_idx, normalized_weights) ==
    [metric \in DOMAIN normalized_weights |->
        Contribution(table, player_idx, metric,
                     ContributionValue(table, player_idx, metric),
                     normalized_weights[metric])]

\* the player detail of a displayed result asks for one player's contributions
GetMetricContributions(player_idx) ==
    /\ pc = "received"
    /\ outcome = "displayed"
    /\ player_idx \in 1..Len(df)
    /\ contributions' =
           [player_idx |-> player_idx,
            metrics |-> get_metric_contributions(
                            df, player_idx,
                            ContributionWeights(weights, additional_metrics))]
    /\ pc' = "explained"
    /\ UNCHANGED <<player_stats, all_players, resolveVars, mergeVars,
                   df, weights, additional_metrics, scored, outcome, restVars>>

\* the rows of the tables of a request
RequestRows ==
    {[Goal |-> 0, Foul |-> 0], [Goal |-> 1, Foul |-> 1],
     [Goal |-> 2, Foul |-> 0], [Goal |-> 2, Foul |-> 1]}

RequestTables == UNION {[1..n -> RequestRows] : n \in 0..MaxPlayers}

RequestPresets ==
    {("Goal" :> 1), ("Foul" :> 1), ("Goal" :> 2 @@ "Foul" :> 1),
     ("Goal" :> 1 @@ "Saves" :> 1), ("Saves" :> 1),
     ("Goal" :> 0 @@ "Foul" :> 0), ("Goal" :> 1 @@ "Foul" :> -1),
     ("Goal" :> -1)}

RequestAdditional == {<<>>, ("Foul" :> 2)}

InitRequest ==
    /\ pc = "score"
    /\ InitCombiner
    /\ InitIdle
    /\ df \in RequestTables
    /\ weights \in RequestPresets
    /\ additional_metrics \in RequestAdditional
    /\ scored = NotScored
    /\ outcome = "none"
    /\ contributions = NoContributions

NextRequest ==
    \/ RejectZeroWeights
    \/ CalculateCategoryScore
    \/ ReceiveResult
    \/ \E player_idx \in 1..MaxPlayers : GetMetricContributions(player_idx)

SpecRequest == InitRequest /\ [][NextRequest]_vars

(***************************************************************************)
(* The player detail of a displayed result: the "Player Detail" tab of     *)
(* show_profile_finder.  The players of the table have names.              *)
(***************************************************************************)
\* frame[frame['Player Name'] == selected_player], first row: the least of
\* the positions whose name is the selected one
FirstNamed(names, selected_player) ==
    CHOOSE i \in 1..Len(names) :
        /\ names[i] = selected_player
        /\ \A j \in 1..Len(names) : names[j] = selected_player => i <= j

\* results_df['Player Name'].tolist(): the names in the order of the result
ResultNames(names, returned) ==
    [r \in 1..Len(returned.rows) |-> names[returned.rows[r].row]]

\* the selectbox is on the option-th of its options; a selected name that
\* is not empty has its overview and its contributions displayed
ShowPlayerDetail(option) ==
    /\ pc = "received"
    /\ outcome = "displayed"
    /\ option \in 1..Len(scored.rows)
    /\ LET options == ResultNames(player_names, scored)
           selected_player == options[option]
       IN  IF selected_player = <<>>
           THEN UNCHANGED <<contributions, detail>>
           ELSE LET player_data == scored.rows[FirstNamed(options, selected_player)]
                    player_idx == FirstNamed(player_names, selected_player)
                    shown == get_metric_contributions(
                                 df, player_idx,
                                 ContributionWeights(weights, additional_metrics))
                IN  /\ contributions' = [player_idx |-> player_idx, metrics |-> shown]
                    /\ detail' = Some([option |-> option,
                                       selected_player |-> selected_player,
                                       player_data |-> player_data,
                                       player_idx |-> player_idx,
                                       contributions |-> shown])
    /\ pc' = "detailed"
    /\ UNCHANGED <<combinerVars, df, weights, additional_metrics, scored, outcome,
                   runVars, cleanVars, scraperVars, player_names>>

\* the names of the players of a table
DetailNames == {<<"J", "S">>, <<"J", "O">>, <<>>}

DetailPresets ==
    {("Goal" :> 1), ("Goal" :> 2 @@ "Foul" :> 1), ("Goal" :> 0 @@ "Foul" :> 0)}

InitDetail ==
    /\ pc = "score"
    /\ InitCombiner
    /\ RunIdle /\ CleanIdle /\ ScraperIdle
    /\ df \in RequestTables
    /\ player_names \in [1..Len(df) -> DetailNames]
    /\ detail = None
    /\ weights \in DetailPresets
    /\ additional_metrics \in RequestAdditional
    /\ scored = NotScored
    /\ outcome = "none"
    /\ contributions = NoContributions

NextDetail ==
    \/ RejectZeroWeights
    \/ CalculateCategoryScore
    \/ ReceiveResult
    \/ \E option \in 1..MaxPlayers : ShowPlayerDetail(option)

SpecDetail == InitDetail /\ [][NextDetail]_vars

(***************************************************************************)
(* The core operations side by side: a merge of a roster with a pool, or   *)
(* a scoring request with the contributions of one player.                 *)
(***************************************************************************)
\* both inputs of the combiner are loaded, combine_data is next
InitLoaded ==
    /\ pc = "load_stats"
    /\ all_players \in RunRosters
    /\ player_stats \in {StatsDict(rows) : rows \in RunStatsFiles}
    /\ player = NoPlayer
    /\ result = NoMatch
    /\ idx = 0
    /\ combined_data = <<>>
    /\ matched_count = 0
    /\ team_validated_matches = 0
    /\ non_team_matches = 0
    /\ unmatched_players = <<>>
    /\ ret = "none"
    /\ df = <<>>
    /\ weights = <<>>
    /\ additional_metrics = <<>>
    /\ scored = <<>>
    /\ outcome = "none"
    /\ contributions = <<>>
    /\ InitIdle

InitCore == InitLoaded \/ InitRequest

NextCore ==
    \/ CombineStart
    \/ CombineStep
    \/ CombineReturn
    \/ NextRequest

SpecCore == InitCore /\ [][NextCore]_vars

(***************************************************************************)
(* Properties of the scoring.                                              *)
(***************************************************************************)
ScoredRows == scored.rows

\* the number of players whose composite score is strictly lower than row r's
StrictlyLower(r) ==
    Cardinality({q \in 1..Len(ScoredRows) : RLess(ScoredRows[q].score, ScoredRows[r].score)})

\* the number of players, row r's included, with row r's composite score
EquallyScored(r) ==
    Cardinality({q \in 1..Len(ScoredRows) : ScoredRows[q].score = ScoredRows[r].score})

C10_SortedRankedStable ==
    scored.kind = "scored" =>
        /\ Len(ScoredRows) = Len(df)
        /\ \A r \in 1..Len(ScoredRows) : ScoredRows[r].Rank = r
        /\ {ScoredRows[r].row : r \in 1..Len(ScoredRows)} = 1..Len(df)
        /\ \A r, q \in 1..Len(ScoredRows) :
              r < q => ~RLess(ScoredRows[r].score, ScoredRows[q].score)
        /\ \A r, q \in 1..Len(ScoredRows) :
              (r < q /\ ScoredRows[r].score = ScoredRows[q].score)
                  => ScoredRows[r].row < ScoredRows[q].row

\* C10 without the stability: sorted, ranked 1..n, every player once
C10_SortedRanked ==
    scored.kind = "scored" =>
        /\ Len(ScoredRows) = Len(df)
        /\ \A r \in 1..Len(ScoredRows) : ScoredRows[r].Rank = r
        /\ {ScoredRows[r].row : r \in 1..Len(ScoredRows)} = 1..Len(df)
        /\ \A r, q \in 1..Len(ScoredRows) :
              r < q => ~RLess(ScoredRows[r].score, ScoredRows[q].score)

\* exactly two players hold the highest composite score, and all the other
\* players, at least one, hold one and the same lower score
TwoTiedAtTop ==
    /\ scored.kind = "scored"
    /\ Len(ScoredRows) >= 3
    /\ ScoredRows[1].score = ScoredRows[2].score
    /\ RLess(ScoredRows[3].score, ScoredRows[2].score)
    /\ \A r \in 3..Len(ScoredRows) : ScoredRows[r].score = ScoredRows[3].score

NoScorableMetrics ==
    (DOMAIN weights \cup DOMAIN additional_metrics) \cap DfColumns = {}

\* C12: when no supplied weight names a column of the table, the request
\* ends with the failure reported to the caller: no scores are produced and
\* no exception escapes calculate_category_score or the handler that called
\* it.
C12_NoScorableMetricsReported ==
    (NoScorableMetrics /\ pc = "received") =>
        /\ scored.rows = <<>>
        /\ outcome = "error_reported"

\* C12, the part within calculate_category_score: it returns without
\* scores and without raising
C12_EntryPointReturnsEmpty ==
    (NoScorableMetrics /\ pc \in {"scored", "received"}) =>
        /\ scored.rows = <<>>
        /\ scored.kind \in {"empty", "no_valid_metrics"}

\* the metrics a request supplies a weight for, the weight that counts for
\* each, and the total over the metrics that are columns of the table
Supplied == DOMAIN weights \cup DOMAIN additional_metrics

FilteredWeight(m) ==
    IF m \in DOMAIN additional_metrics THEN additional_metrics[m] ELSE weights[m]

Filtered == Supplied \cap DfColumns

FilteredTotal == SumOver(Filtered, [m \in Filtered |-> FilteredWeight(m)])

UsedWeights == scored.normalized_weights

\* C13 as stated: the normalized weights returned have as keys exactly the
\* supplied metrics that are columns of the table, and whenever the filtered
\* weights do not total 0 they sum to 1, each being its filtered weight
\* divided by the filtered total.
C13_AsStated ==
    scored.kind = "scored" =>
        /\ DOMAIN UsedWeights = Filtered
        /\ FilteredTotal # 0 =>
              /\ RSumOver(Filtered, UsedWeights) = RInt(1)
              /\ \A m \in Filtered :
                    UsedWeights[m] = Rat(FilteredWeight(m), FilteredTotal)

\* C13 amended: the keys are exactly the supplied metrics that are columns;
\* whenever the filtered total is positive the weights sum to 1, each being
\* its filtered weight divided by the total; whenever the total is zero or
\* negative the weights are returned as supplied.
C13_NormalizedWhenPositive ==
    scored.kind = "scored" =>
        /\ DOMAIN UsedWeights = Filtered
        /\ FilteredTotal > 0 =>
              /\ RSumOver(Filtered, UsedWeights) = RInt(1)
              /\ \A m \in Filtered :
                    UsedWeights[m] = Rat(FilteredWeight(m), FilteredTotal)
        /\ FilteredTotal <= 0 =>
              \A m \in Filtered : UsedWeights[m] = RInt(FilteredWeight(m))

\* a request with a weight for Saves, which is no column, and weights 1 and
\* 2 for Goal and Foul is scored with 1/3 and 2/3
C13_Witness ==
    /\ scored.kind = "scored"
    /\ "Saves" \in Supplied
    /\ UsedWeights = ("Goal" :> Rat(1, 3) @@ "Foul" :> Rat(2, 3))

\* calculate_category_score was called with a table that has players and
\* with weights for at least one column, and these weights total 0
ZeroTotalCall ==
    /\ pc \in {"scored", "received", "explained"}
    /\ Len(df) > 0
    /\ Filtered # {}
    /\ FilteredTotal = 0

\* C14 as stated: when the filtered weights total 0, for any combination of
\* weights summing to 0, the weights are left unmodified, nothing is divided
\* by zero, the call does not fail, and every composite score is 0.
C14_AsStated ==
    ZeroTotalCall =>
        /\ scored.kind = "scored"
        /\ Len(ScoredRows) = Len(df)
        /\ \A m \in Filtered : UsedWeights[m] = RInt(FilteredWeight(m))
        /\ \A r \in 1..Len(ScoredRows) : ScoredRows[r].score = RInt(0)

\* C14 amended: when the filtered weights total 0 the weights are left
\* unmodified and the call does not fail; every composite score is 0 when
\* every filtered weight is 0.
C14_ZeroWeightsZeroScores ==
    ZeroTotalCall =>
        /\ scored.kind = "scored"
        /\ Len(ScoredRows) = Len(df)
        /\ \A m \in Filtered : UsedWeights[m] = RInt(FilteredWeight(m))
        /\ (\A m \in Filtered : FilteredWeight(m) = 0) =>
              \A r \in 1..Len(ScoredRows) : ScoredRows[r].score = RInt(0)

\* players with different Goal and Foul values, scored with weight 0 on
\* both, all get the composite score 0
C14_Witness ==
    /\ ZeroTotalCall
    /\ Filtered = {"Goal", "Foul"}
    /\ \E i, j \in 1..Len(df) : df[i].Goal # df[j].Goal /\ df[i].Foul # df[j].Foul
    /\ \A m \in Filtered : UsedWeights[m] = RInt(0)
    /\ \A r \in 1..Len(ScoredRows) : ScoredRows[r].score = RInt(0)

\* calculate_category_score has just returned a scored table
JustScored == pc = "scored" /\ scored.kind = "scored"

\* the values of column m over the whole table
ColumnValues(m) == {df[i][m] : i \in 1..Len(df)}

Lowest(m) == CHOOSE v \in ColumnValues(m) : \A u \in ColumnValues(m) : v <= u

Highest(m) == CHOOSE v \in ColumnValues(m) : \A u \in ColumnValues(m) : v >= u

\* the share of the column's range that lies below the value of player i
RangeShare(m, i) == Rat(100 * (df[i][m] - Lowest(m)), Highest(m) - Lowest(m))

\* the 0-100 score of player i for metric m over the population of df
MetricScore(m, i) ==
    IF Highest(m) = Lowest(m) THEN RInt(50)
    ELSE IF m \in {"Own Goal", "Yellow Card", "Foul", "Shoot Off Target"}
    THEN RSub(RInt(100), RangeShare(m, i))
    ELSE RangeShare(m, i)

\* the weight metric m counts with
ExpectedWeight(m) ==
    IF FilteredTotal > 0 THEN Rat(FilteredWeight(m), FilteredTotal)
    ELSE RInt(FilteredWeight(m))

\* C15: the composite score of every player is the sum, over exactly the
\* supplied metrics that are columns of the table, of the player's 0-100
\* score for the metric times the metric's normalized weight; a metric
\* that is both a preset and an additional one counts once, with the
\* additional weight.
C15_CompositeIsWeightedSum ==
    JustScored =>
        \A r \in 1..Len(ScoredRows) :
            ScoredRows[r].score =
                RSumOver(Filtered,
                         [m \in Filtered |->
                             RMul(MetricScore(m, ScoredRows[r].row), ExpectedWeight(m))])

\* Foul is a preset metric with weight 1 and an additional one with weight
\* 2, next to Goal with weight 2: a player in the middle of the Goal range
\* with the most fouls scores 50 * 1/2 + 0 * 1/2 = 25
C15_Witness ==
    /\ scored.kind = "scored"
    /\ weights = ("Goal" :> 2 @@ "Foul" :> 1)
    /\ additional_metrics = ("Foul" :> 2)
    /\ \E r \in 1..Len(ScoredRows) :
          /\ MetricScore("Goal", ScoredRows[r].row) = RInt(50)
          /\ MetricScore("Foul", ScoredRows[r].row) = RInt(0)
          /\ ScoredRows[r].score = RInt(25)

\* the factors by which the weights of a request are scaled
Scales == 2..MaxScale

\* the weights w, each multiplied by k
Scaled(w, k) == [m \in DOMAIN w |-> k * w[m]]

\* the composite scores calculate_category_score works out for the table of
\* the request when every weight of the request is multiplied by k
ScaledScores(k) ==
    WeightedScores(df, NormalizedWeights(
        AvailableWeights(Scaled(weights, k), Scaled(additional_metrics, k))))

\* the composite scores of the result at hand, by the players' positions
\* in df
ScoresByRow ==
    [i \in 1..Len(df) |->
        ScoredRows[CHOOSE r \in 1..Len(ScoredRows) : ScoredRows[r].row = i].score]

\* the request with every weight multiplied by k gives every player the
\* composite score of the result at hand; the percentiles and the order of
\* the result at hand are those of these scores
SameResultScaled(k) ==
    /\ ScaledScores(k) = ScoresByRow
    /\ \A r \in 1..Len(ScoredRows) :
          ScoredRows[r].percentile =
              RMul(PctRank(ScoresByRow, ScoredRows[r].row), RInt(100))
    /\ [r \in 1..Len(ScoredRows) |-> ScoredRows[r].row] \in SortedOrders(ScoresByRow)

\* C16 as stated: for any positive k, scoring the same players with the
\* weights w and with k * w gives identical composite scores, ranks and
\* percentiles.
C16_AsStated ==
    JustScored =>
        \A k \in Scales : SameResultScaled(k)

\* C16 amended: the same, for weights whose filtered total is positive.
C16_ScaleInvariantWhenPositive ==
    (JustScored /\ FilteredTotal > 0) =>
        \A k \in Scales : SameResultScaled(k)

\* players with different scores under the weights Goal 2, Foul 1, whose
\* doubled weights Goal 4, Foul 2 give the same result
C16_Witness ==
    /\ scored.kind = "scored"
    /\ weights = ("Goal" :> 2 @@ "Foul" :> 1)
    /\ additional_metrics = <<>>
    /\ Len(ScoredRows) >= 2
    /\ RLess(ScoredRows[Len(ScoredRows)].score, ScoredRows[1].score)
    /\ SameResultScaled(2)

\* what get_metric_contributions returned, per metric
ContributionOf == contributions.metrics

\* C17: for the player it is asked about, get_metric_contributions returns
\* for each included metric the normalized score, the weight and the
\* weighted contribution that calculate_category_score used for that player
\* over the same table and weights, so the contributions add up to the
\* player's composite score.
C17_ContributionsMatchScore ==
    pc = "explained" =>
        /\ DOMAIN ContributionOf = DOMAIN UsedWeights
        /\ \A m \in DOMAIN ContributionOf :
              /\ ContributionOf[m].raw_value = df[contributions.player_idx][m]
              /\ ContributionOf[m].normalized_score =
                     NormalizedValue(df, m, contributions.player_idx)
              /\ ContributionOf[m].weight = UsedWeights[m]
              /\ ContributionOf[m].weighted_contribution =
                     RMul(NormalizedValue(df, m, contributions.player_idx), UsedWeights[m])
        /\ RSumOver(DOMAIN ContributionOf,
                    [m \in DOMAIN ContributionOf |-> ContributionOf[m].weighted_contribution])
               = ScoresByRow[contributions.player_idx]

\* a player with the fewest fouls of a table in which all players have
\* the same Goal value, scored on Goal and Foul with equal weights: the
\* contributions 50 * 1/2 and 100 * 1/2 add up to the composite score 75
C17_Witness ==
    /\ pc = "explained"
    /\ DOMAIN ContributionOf = {"Goal", "Foul"}
    /\ ContributionOf["Goal"].normalized_score = RInt(50)
    /\ ContributionOf["Goal"].weighted_contribution = RInt(25)
    /\ ContributionOf["Foul"].normalized_score = RInt(100)
    /\ ContributionOf["Foul"].weighted_contribution = RInt(50)
    /\ ScoresByRow[contributions.player_idx] = RInt(75)

\* C18: a metric whose column has no variance over the population, also
\* the only column value of a single player, enters every player's
\* composite score with exactly 50 times its weight, whatever its polarity.
C18_NoVarianceIsFifty ==
    JustScored =>
        \A r \in 1..Len(ScoredRows) :
            ScoredRows[r].score =
                RSumOver(Filtered,
                         [m \in Filtered |->
                             RMul(IF Highest(m) = Lowest(m) THEN RInt(50)
                                  ELSE NormalizedValue(df, m, ScoredRows[r].row),
                                  UsedWeights[m])])

\* a single player scored on Goal, a positive metric, and on Foul, a
\* negative one, gets 50 * 2/3 + 50 * 1/3 = 50
C18_Witness ==
    /\ JustScored
    /\ Len(df) = 1
    /\ UsedWeights = ("Goal" :> Rat(2, 3) @@ "Foul" :> Rat(1, 3))
    /\ ScoredRows[1].score = RInt(50)

\* the table was just scored on metric m alone, with weight 1, and the
\* column of m has variance: the composite score is m's normalized value
ScoredOnAlone(m) ==
    /\ JustScored
    /\ UsedWeights = (m :> RInt(1))
    /\ Highest(m) # Lowest(m)

\* the raw value of metric m of the player in row r of the result
RawValue(m, r) == df[ScoredRows[r].row][m]

\* C19: for a positive metric with variance, here Goal, the normalized value
\* of a player is (v - min) / (max - min) * 100: it lies between 0 and 100,
\* the player with the minimum gets 0, the one with the maximum 100, and a
\* higher raw value never gets a lower normalized value.
C19_PositiveMinMax ==
    ScoredOnAlone("Goal") =>
        /\ \A r \in 1..Len(ScoredRows) :
              /\ ScoredRows[r].score =
                     Rat(100 * (RawValue("Goal", r) - Lowest("Goal")),
                         Highest("Goal") - Lowest("Goal"))
              /\ ~RLess(ScoredRows[r].score, RInt(0))
              /\ ~RLess(RInt(100), ScoredRows[r].score)
              /\ RawValue("Goal", r) = Lowest("Goal") => ScoredRows[r].score = RInt(0)
              /\ RawValue("Goal", r) = Highest("Goal") => ScoredRows[r].score = RInt(100)
        /\ \A r, q \in 1..Len(ScoredRows) :
              RawValue("Goal", r) <= RawValue("Goal", q)
                  => ~RLess(ScoredRows[q].score, ScoredRows[r].score)

\* players with Goal 0, 1 and 2 scored on Goal alone get 0, 50 and 100
C19_Witness ==
    /\ ScoredOnAlone("Goal")
    /\ Len(ScoredRows) = 3
    /\ \A r \in 1..3 :
          /\ RawValue("Goal", r) = 3 - r
          /\ ScoredRows[r].score = RInt(50 * (3 - r))

\* C20: for a metric with variance the scale is inverted exactly when the
\* metric is one of Own Goal, Yellow Card, Foul, Shoot Off Target: Foul gets
\* 100 - (v - min) / (max - min) * 100, so that the values 0 and 1 become
\* 100 and 0, and Goal, being none of the four, gets the value not inverted.
C20_NegativeInverted ==
    /\ negative_metrics = {"Own Goal", "Yellow Card", "Foul", "Shoot Off Target"}
    /\ ScoredOnAlone("Foul") =>
          \A r \in 1..Len(ScoredRows) :
              /\ ScoredRows[r].score =
                     RSub(RInt(100),
                          Rat(100 * (RawValue("Foul", r) - Lowest("Foul")),
                              Highest("Foul") - Lowest("Foul")))
              /\ RawValue("Foul", r) = Lowest("Foul") => ScoredRows[r].score = RInt(100)
              /\ RawValue("Foul", r) = Highest("Foul") => ScoredRows[r].score = RInt(0)
    /\ ScoredOnAlone("Goal") =>
          \A r \in 1..Len(ScoredRows) :
              ScoredRows[r].score =
                  Rat(100 * (RawValue("Goal", r) - Lowest("Goal")),
                      Highest("Goal") - Lowest("Goal"))

\* two players with Foul 0 and 1 scored on Foul alone get 100 and 0
C20_Witness ==
    /\ ScoredOnAlone("Foul")
    /\ Len(ScoredRows) = 2
    /\ RawValue("Foul", 1) = 0 /\ ScoredRows[1].score = RInt(100)
    /\ RawValue("Foul", 2) = 1 /\ ScoredRows[2].score = RInt(0)

\* the roster input or the statistics input is missing or unreadable
SourceUnavailable ==
    teams_info_file.status # "ok" \/ player_stats_file.status # "ok"

\* C21: if the roster input or the statistics input is missing or
\* unreadable, run returns False without getting to combine_data or to
\* export_to_csv, and no output file is written; the output file is only
\* written after both loads succeeded and the merge made its rows.
C21_SourceUnavailableAborts ==
    /\ SourceUnavailable =>
          /\ pc \in {"run", "run_load_stats", "returned"}
          /\ pc = "returned" => run_ret = "False"
          /\ ret = "none" /\ combined_data = <<>>
          /\ output_file = None
    /\ output_file # None =>
          /\ ~SourceUnavailable
          /\ all_players = teams_info_file.content
          /\ ret = "combined_data"
          /\ output_file = Some(combined_data)
          /\ Len(combined_data) = Len(all_players)

\* the roster was loaded, the statistics file is unreadable, and run has
\* returned False
C21_Witness ==
    /\ pc = "returned"
    /\ teams_info_file.status = "ok" /\ Len(all_players) > 0
    /\ player_stats_file.status = "unreadable" /\ Len(player_stats_file.content) > 0
    /\ run_ret = "False"
    /\ output_file = None

\* C22: the core operations change nothing they are given: combine_data,
\* and find_player_stats within it, leave the roster and the candidate pool
\* with all its records as they are, and calculate_category_score and
\* get_metric_contributions leave the player table and the weights as they
\* are; what they return is held in other variables.
C22_InputsUnchanged ==
    [][/\ (CombineStart \/ CombineStep \/ CombineReturn)
              => UNCHANGED <<all_players, player_stats>>
       /\ (CalculateCategoryScore \/ \E i \in 1..MaxPlayers : GetMetricContributions(i))
              => UNCHANGED <<df, weights, additional_metrics>>]_vars

\* combine_data has merged a roster player with a record of the pool, and
\* the record's cells went into a new row
C22_Witness ==
    /\ pc = "done"
    /\ ret = "combined_data"
    /\ matched_count > 0
    /\ \E i \in 1..Len(combined_data), j \in 1..Len(player_stats) :
          combined_data[i].stats = player_stats[j].cells

\* the words of a name: its maximal runs of characters that are not
\* whitespace, in order
RECURSIVE WordsOf(_, _, _)
WordsOf(s, word, words) ==
    IF s = <<>> THEN (IF word = <<>> THEN words ELSE Append(words, word))
    ELSE IF Head(s) \in {" ", "\t"}
    THEN WordsOf(Tail(s), <<>>, IF word = <<>> THEN words ELSE Append(words, word))
    ELSE WordsOf(Tail(s), Append(word, Head(s)), words)

\* the words joined by single blanks
RECURSIVE JoinWords(_)
JoinWords(words) ==
    IF words = <<>> THEN <<>>
    ELSE IF Len(words) = 1 THEN words[1]
    ELSE words[1] \o <<" ">> \o JoinWords(Tail(words))

\* the letter in upper case
Capital(c) == IF c = "j" THEN "J" ELSE c

ScrapedClean == Upper(clean_text(scraped_name))

\* player i's fullName, or name, in upper case equals the scraped name
FullNameEquals(i) == Upper(all_players[i].fullName) = ScrapedClean

NameEquals(i) == Upper(all_players[i].name) = ScrapedClean

\* one of the two strings, in upper case, holds the other
Containment(a) == In(ScrapedClean, Upper(a)) \/ In(Upper(a), ScrapedClean)

\* the first player of the list, by position, among those at the
\* positions given; None if there are none
FirstPlayer(positions) ==
    IF positions = {} THEN None
    ELSE Some(all_players[CHOOSE i \in positions : \A j \in positions : i <= j])

Roster == 1..Len(all_players)

\* C24 as stated: the resolver returns the first player whose fullName
\* equals the scraped name; failing that the first whose name equals it;
\* failing that the first player in list order whose fullName or name
\* holds the scraped name or is held by it.
C24_AsStated ==
    pc = "matched" =>
        matched_player =
            IF \E i \in Roster : FullNameEquals(i)
            THEN FirstPlayer({i \in Roster : FullNameEquals(i)})
            ELSE IF \E i \in Roster : NameEquals(i)
            THEN FirstPlayer({i \in Roster : NameEquals(i)})
            ELSE FirstPlayer({i \in Roster :
                                 \/ Containment(all_players[i].fullName)
                                 \/ Containment(all_players[i].name)})

\* C24 amended: the containment step is two passes: the first player in
\* list order whose fullName holds the scraped name or is held by it is
\* returned, and only if there is none the first player whose name does.
C24_FullNameContainmentFirst ==
    pc = "matched" =>
        matched_player =
            IF \E i \in Roster : FullNameEquals(i)
            THEN FirstPlayer({i \in Roster : FullNameEquals(i)})
            ELSE IF \E i \in Roster : NameEquals(i)
            THEN FirstPlayer({i \in Roster : NameEquals(i)})
            ELSE IF \E i \in Roster : Containment(all_players[i].fullName)
            THEN FirstPlayer({i \in Roster : Containment(all_players[i].fullName)})
            ELSE FirstPlayer({i \in Roster : Containment(all_players[i].name)})

\* the scraped name J is held by the name JS of the first player and by
\* the fullName JO of the second; the second player is returned
C24_Witness ==
    /\ pc = "matched"
    /\ scraped_name = <<"J">>
    /\ all_players = <<Player(<<"J", "S">>, <<"S", "O">>, TeamFA),
                       Player(<<"S">>, <<"J", "O">>, TeamFA)>>
    /\ matched_player = Some(all_players[2])

\* the string is not empty and, in upper case, equals the scraped name,
\* holds it or is held by it
MatchesNonEmpty(a) == a # <<>> /\ (Upper(a) = ScrapedClean \/ Containment(a))

\* C27: the resolver returns None whenever no player of the list has a
\* non-empty fullName or name that equals, holds or is held by the scraped
\* name; the player returned always has such a fullName or name, so that
\* no player is returned because of an empty field.
C27_NoMatchOnEmptyField ==
    pc = "matched" =>
        /\ (\A i \in Roster : /\ ~MatchesNonEmpty(all_players[i].fullName)
                              /\ ~MatchesNonEmpty(all_players[i].name))
               => matched_player = None
        /\ matched_player # None =>
               \/ MatchesNonEmpty(matched_player[1].fullName)
               \/ MatchesNonEmpty(matched_player[1].name)

\* the rows of the statistics input
StatsInput == player_stats_file.content

\* the statistics input holds a row under the player's fullName and team
HasOwnRow(p) ==
    \E k \in 1..Len(StatsInput) :
        StatsInput[k].pname = p.fullName /\ StatsInput[k].Team = p.team_name

\* C25: every row of the statistics input with a non-empty player name is,
\* after load_player_stats, a candidate with its own name and Team; so a
\* roster player for whom the input holds a row with Player Name equal to
\* the player's fullName and Team equal to the player's team resolves with
\* the tier exact_fullname_team, also when the input holds another row with
\* that Player Name and a different Team.
C25_EveryRowIsCandidate ==
    (/\ Loads(teams_info_file) /\ Loads(player_stats_file)
     /\ pc \in {"load_stats", "combine", "done", "returned"}) =>
        /\ \A k \in 1..Len(StatsInput) :
              StatsInput[k].pname # <<>> =>
                  \E j \in 1..Len(player_stats) :
                      /\ player_stats[j].pname = StatsInput[k].pname
                      /\ player_stats[j].Team = StatsInput[k].Team
        /\ (player # NoPlayer /\ player.fullName # <<>> /\ HasOwnRow(player)) =>
              /\ result.match_type = "exact_fullname_team"
              /\ result.stats # None
              /\ result.stats[1].Team = player.team_name

\* C26: find_player_stats does not match on an empty key, whatever the pool
\* holds (candidates with a whitespace-only name included): a player with
\* an empty fullName is matched, if at all, through the name (tier
\* exact_name_team or clean_name_team), and a player whose name and
\* fullName are both empty gets no_match.
C26_NoMatchOnEmptyKey ==
    (pc = "resolved" /\ player.fullName = <<>>) =>
        /\ result.match_type \in {"exact_name_team", "clean_name_team", "no_match"}
        /\ player.name = <<>> => result = NoMatch

\* C28: in the rows export_comprehensive_csv writes, a statistic of a roster
\* player holds a value only if a scraped row of that statistic with that
\* value was matched to that very player.
C28_ExportedValuesAreOwn ==
    pc = "exported" =>
        \A i \in 1..Len(exported_rows) : \A k \in 1..Len(StatisticsTypes) :
            exported_rows[i].values[k] # <<>> =>
                \E j \in 1..Len(match_log) :
                    match_log[j] = [position |-> i, stat_name |-> StatisticsTypes[k],
                                    value |-> exported_rows[i].values[k]]

\* the sum of the weighted contributions the detail view displays
DisplayedContributions ==
    RSumOver(DOMAIN detail[1].contributions,
             [m \in DOMAIN detail[1].contributions |->
                 detail[1].contributions[m].weighted_contribution])

\* C29: in the player detail, the rank, score and percentile displayed and
\* the contributions displayed are those of one row of the scored table,
\* the row of the selected option, and the weighted contributions displayed
\* sum to the score displayed; also for players that share a Player Name.
C29_DetailOfOneRow ==
    (pc = "detailed" /\ detail # None) =>
        /\ detail[1].player_data.Rank = detail[1].option
        /\ detail[1].player_data.row = detail[1].player_idx
        /\ DisplayedContributions = detail[1].player_data.score

\* no weight handed over is negative, and the weights of the metrics that
\* are columns of the table total more than 0
WeightsNonNegative ==
    /\ \A m \in DOMAIN weights : weights[m] >= 0
    /\ \A m \in DOMAIN additional_metrics : additional_metrics[m] >= 0
    /\ FilteredTotal > 0

\* 0 <= x <= 100, x a rational
InPercentRange(x) == ~RLess(x, RInt(0)) /\ ~RLess(RInt(100), x)

\* C30: when no weight is negative and the filtered weights total more than
\* 0, every composite score of the result of calculate_category_score lies
\* in 0..100, and so does every percentile.
C30_ScoresInRange ==
    (JustScored /\ WeightsNonNegative) =>
        \A r \in 1..Len(ScoredRows) :
            /\ InPercentRange(ScoredRows[r].score)
            /\ InPercentRange(ScoredRows[r].percentile)

\* a result with two weighted metrics that holds both ends of the range
C30_Witness ==
    /\ JustScored
    /\ WeightsNonNegative
    /\ Cardinality({m \in Filtered : FilteredWeight(m) > 0}) = 2
    /\ \E r \in 1..Len(ScoredRows) : ScoredRows[r].score = RInt(100)
    /\ \E r \in 1..Len(ScoredRows) : ScoredRows[r].percentile = RInt(100)
    /\ \E r \in 1..Len(ScoredRows) : RLess(ScoredRows[r].score, RInt(50))

====
